---- MODULE Spec2Model ----
(***************************************************************************)
(* Model of the AInt arbitrary-precision unsigned integer class of         *)
(* test_lab1.py.  An AInt object owns two Python lists, bits (least        *)
(* significant bit first) and buf (pending most-significant False bits).   *)
(* Objects live in a heap (a sequence of objects, a reference is an index  *)
(* into it) so that in-place mutation and aliasing are observable.         *)
(* Every method is an operator that takes the heap and the references of   *)
(* its arguments and returns the heap after the call together with the     *)
(* reference of the returned object (or the raised exception).             *)
(***************************************************************************)
EXTENDS Integers, Sequences, FiniteSets, TLC

\* Bound on the number of bits (bits plus buf) of an operand object.
MaxLen == 3

Max(m, n) == IF m >= n THEN m ELSE n
Min(m, n) == IF m <= n THEN m ELSE n

\* ------------------------------------------------------------------------
\* Python values returned by the non-AInt methods
\* ------------------------------------------------------------------------
PyNone    == [t |-> "none", i |-> 0, b |-> FALSE, s |-> <<>>]
PyInt(n)  == [t |-> "int",  i |-> n, b |-> FALSE, s |-> <<>>]
PyBool(v) == [t |-> "bool", i |-> 0, b |-> v,     s |-> <<>>]
PyStr(s)  == [t |-> "str",  i |-> 0, b |-> FALSE, s |-> s]

\* Python truth value of an int or a bool
Truthy(v) == IF v.t = "int" THEN v.i # 0 ELSE v.b

\* ------------------------------------------------------------------------
\* Results of a call: heap after the call, returned reference, exception
\* ------------------------------------------------------------------------
Ok(h, r)   == [h |-> h, r |-> r, err |-> "none"]
Fail(h, e) == [h |-> h, r |-> 0, err |-> e]

\* A frame of a method body: the heap and the local variables (references)
Frame(h, v) == [h |-> h, v |-> v]

\* name = <the AInt returned by a call o that did not raise>
Assign(e, name, o) == [h |-> o.h, v |-> [e.v EXCEPT ![name] = o.r]]

\* ------------------------------------------------------------------------
\* Construction
\* ------------------------------------------------------------------------
EmptyObj == [bits |-> <<>>, buf |-> <<>>]

\* AInt.append: buf.append(b); if b: bits.extend(buf); buf.clear()
append(h, r, b) ==
  LET nb == Append(h[r].buf, b)
  IN  [h EXCEPT ![r] = IF b THEN [bits |-> h[r].bits \o nb, buf |-> <<>>]
                            ELSE [bits |-> h[r].bits,       buf |-> nb]]

\* for b in bits: self.append(b)
RECURSIVE appendAll(_, _, _)
appendAll(h, r, l) ==
  IF l = <<>> THEN h ELSE appendAll(append(h, r, Head(l)), r, Tail(l))

\* bits = [si == '1' for si in reversed(list(s))] for a str s
StrBits(s) == [k \in 1..Len(s) |-> s[Len(s) + 1 - k] = "1"]

\* the same comprehension when s is a list of bool: a bool never equals '1'
ListBits(l) == [k \in 1..Len(l) |-> FALSE]

\* AInt.__init__ once the bit list is known: fresh bits and buf, then append
init(h, l) == Ok(appendAll(Append(h, EmptyObj), Len(h) + 1, l), Len(h) + 1)

\* AInt('1')
One(h) == init(h, StrBits(<<"1">>))

\* ------------------------------------------------------------------------
\* Observers
\* ------------------------------------------------------------------------
len(h, a) == Len(h[a].bits)

\* mutant of repr: the special case of the value zero is missing
reprNoZero(h, a) ==
  [k \in 1..Len(h[a].bits) |->
     IF h[a].bits[Len(h[a].bits) + 1 - k] THEN "1" ELSE "0"]

repr(h, a) ==
  IF Len(h[a].bits) = 0 THEN <<"0">>
  ELSE [k \in 1..Len(h[a].bits) |->
          IF h[a].bits[Len(h[a].bits) + 1 - k] THEN "1" ELSE "0"]

RECURSIVE Pow2(_)
Pow2(k) == IF k = 0 THEN 1 ELSE 2 * Pow2(k - 1)

\* AInt.__int__ on a bit list: sum(v << i for i, v in enumerate(bits))
RECURSIVE int(_)
int(l) ==
  IF l = <<>> THEN 0
  ELSE (IF l[Len(l)] THEN Pow2(Len(l) - 1) ELSE 0) + int(SubSeq(l, 1, Len(l) - 1))

isodd(h, a) == IF len(h, a) = 0 THEN PyInt(0) ELSE PyBool(h[a].bits[1])

\* ------------------------------------------------------------------------
\* Addition
\* ------------------------------------------------------------------------
RECURSIVE addLoop(_, _, _, _, _, _)
addLoop(h, out, x, y, k, c) ==
  IF k > Max(Len(h[x].bits), Len(h[y].bits)) THEN append(h, out, c)
  ELSE LET a == IF k <= Len(h[x].bits) THEN h[x].bits[k] ELSE FALSE
           b == IF k <= Len(h[y].bits) THEN h[y].bits[k] ELSE FALSE
       IN  addLoop(append(h, out, (a # b) # c), out, x, y, k + 1,
                   (a /\ b) \/ (b /\ c) \/ (a /\ c))

\* mutant of add: the carry starts out True
addCarryIn(h, x, y) ==
  LET out == init(h, <<>>)
  IN  Ok(addLoop(out.h, out.r, x, y, 1, TRUE), out.r)

add(h, x, y) ==
  LET out == init(h, <<>>)
  IN  Ok(addLoop(out.h, out.r, x, y, 1, FALSE), out.r)

\* ------------------------------------------------------------------------
\* Halving, doubling, normalisation
\* ------------------------------------------------------------------------
\* mutant of fhalf: drops the low bit of self in place and returns self
fhalfInPlace(h, a) ==
  Ok([h EXCEPT ![a].bits = SubSeq(h[a].bits, 2, Len(h[a].bits))], a)

fhalf(h, a) == init(h, SubSeq(h[a].bits, 2, Len(h[a].bits)))

twice(h, a) == init(h, <<FALSE>> \o h[a].bits)

RECURSIVE StripHigh(_)
StripHigh(l) ==
  IF l # <<>> /\ ~l[Len(l)] THEN StripHigh(SubSeq(l, 1, Len(l) - 1)) ELSE l

\* mutant of remove_leading_zeros: clears buf, leaves bits as they are
clearBufOnly(h, r) == [h EXCEPT ![r].buf = <<>>]

remove_leading_zeros(h, r) ==
  [h EXCEPT ![r] = [bits |-> StripHigh(h[r].bits), buf |-> <<>>]]

\* ------------------------------------------------------------------------
\* Subtraction
\* ------------------------------------------------------------------------
\* mutant of Comp: zip instead of zip_longest, other is not zero-extended
CompShort(h, x, y) ==
  [k \in 1..Min(Len(h[x].bits), Len(h[y].bits)) |-> ~h[y].bits[k]]

\* list(not b for a, b in zip_longest(self.bits, other.bits, fillvalue=False))
Comp(h, x, y) ==
  [k \in 1..Max(Len(h[x].bits), Len(h[y].bits)) |->
     ~(IF k <= Len(h[y].bits) THEN h[y].bits[k] ELSE FALSE)]

\* sub also reports, in field sum, out.bits as it is before out.bits.pop()
SubRes(h, r, e, sum) == [h |-> h, r |-> r, err |-> e, sum |-> sum]

pop(h, r) == [h EXCEPT ![r].bits = SubSeq(h[r].bits, 1, Len(h[r].bits) - 1)]

sub(h, x, y) ==
  IF ~(Len(h[y].bits) <= Len(h[x].bits))
  THEN SubRes(h, 0, "AssertionError", <<>>)
  ELSE LET c   == init(h, Comp(h, x, y))
           s1  == add(c.h, x, c.r)
           one == One(s1.h)
           out == add(one.h, s1.r, one.r)
       IN  IF out.h[out.r].bits = <<>>
           THEN SubRes(out.h, 0, "IndexError", <<>>)
           ELSE SubRes(remove_leading_zeros(pop(out.h, out.r), out.r), out.r,
                       "none", out.h[out.r].bits)

\* ------------------------------------------------------------------------
\* Relational operators
\* ------------------------------------------------------------------------
\* Python tuple comparison s < t for tuples of bool
RECURSIVE TupleLt(_, _)
TupleLt(s, t) ==
  IF s = <<>> THEN t # <<>>
  ELSE IF t = <<>> THEN FALSE
  ELSE IF Head(s) # Head(t) THEN ~Head(s) /\ Head(t)
  ELSE TupleLt(Tail(s), Tail(t))

Reversed(l) == [k \in 1..Len(l) |-> l[Len(l) + 1 - k]]

lt(h, x, y) ==
  \/ len(h, x) < len(h, y)
  \/ /\ len(h, x) = len(h, y)
     /\ TupleLt(Reversed(h[x].bits), Reversed(h[y].bits))

eq(h, x, y) == h[x].bits = h[y].bits

le(h, x, y) == lt(h, x, y) \/ eq(h, x, y)

\* mutant of ge: r > other
gtStrict(h, x, y) == lt(h, y, x)

\* r >= other: AInt defines no __ge__, Python evaluates the reflected other <= r
ge(h, x, y) == le(h, y, x)

\* ------------------------------------------------------------------------
\* Multiplication
\* ------------------------------------------------------------------------
\* Python slice l[:stop]
SliceTo(l, stop) == SubSeq(l, 1, Min(stop, Len(l)))

\* Python slice l[:stop:step] with stop >= 0 and step >= 1
SliceStep(l, stop, step) ==
  [k \in 1..((Min(stop, Len(l)) + step - 1) \div step) |-> l[(k - 1) * step + 1]]

\* [False] * k
Falses(k) == [j \in 1..k |-> FALSE]

RECURSIVE mul(_, _, _)
RECURSIVE oldmul(_, _, _)
RECURSIVE mulAt(_, _)

\* mutant of oldmul: a zero other returns self
oldmulSelf(h, x, y) ==
  IF repr(h, y) = <<"0">> THEN Ok(h, x)
  ELSE LET f == fhalf(h, y)
           z == mul(f.h, x, f.r)
       IN  IF z.err # "none" THEN z
           ELSE IF ~Truthy(isodd(z.h, y)) THEN twice(z.h, z.r)
           ELSE LET zt == twice(z.h, z.r) IN add(zt.h, x, zt.r)

oldmul(h, x, y) ==
  IF repr(h, y) = <<"0">> THEN init(h, <<>>)
  ELSE LET f == fhalf(h, y)
           z == mul(f.h, x, f.r)
       IN  IF z.err # "none" THEN z
           ELSE IF ~Truthy(isodd(z.h, y)) THEN twice(z.h, z.r)
           ELSE LET zt == twice(z.h, z.r) IN add(zt.h, x, zt.r)

\* the local variables of __mul__; s1..s6 are the unnamed intermediate values
\* xl+xr, yl+yr, raise_n+p1, p3-p1, p3-p1-p2, raise_m+(p3-p1-p2) and s7 the
\* sum of s3 and s6
MulLocals(x, y, n) ==
  [self |-> x, other |-> y, n |-> n, m |-> n \div 2,
   xl |-> 0, xr |-> 0, yl |-> 0, yr |-> 0, p1 |-> 0, p2 |-> 0, p3 |-> 0,
   raise_n |-> 0, raise_m |-> 0,
   s1 |-> 0, s2 |-> 0, s3 |-> 0, s4 |-> 0, s5 |-> 0, s6 |-> 0, s7 |-> 0]

\* name = <call o>, then go on at label next; an exception leaves the method
MulThen(e, name, o, next) ==
  IF o.err # "none" THEN Fail(o.h, o.err) ELSE mulAt(next, Assign(e, name, o))

\* the else branch of __mul__ from the statement that assigns l onwards, in
\* Python's evaluation order; the positional argument of AInt(...) is s, not
\* bits
mulAt(l, e) ==
  LET v == e.v
      h == e.h
  IN
  CASE l = "xl" -> MulThen(e, l, init(h, ListBits(SliceTo(h[v.self].bits, v.m))), "xr")
    [] l = "xr" -> MulThen(e, l, init(h, ListBits(SliceStep(h[v.self].bits, v.m, v.n))), "yl")
    [] l = "yl" -> MulThen(e, l, init(h, ListBits(SliceTo(h[v.other].bits, v.m))), "yr")
    [] l = "yr" -> MulThen(e, l, init(h, ListBits(SliceStep(h[v.other].bits, v.m, v.n))), "p1")
    [] l = "p1" -> MulThen(e, l, mul(h, v.xl, v.yl), "p2")
    [] l = "p2" -> MulThen(e, l, mul(h, v.xr, v.yr), "s1")
    [] l = "s1" -> MulThen(e, l, add(h, v.xl, v.xr), "s2")
    [] l = "s2" -> MulThen(e, l, add(h, v.yl, v.yr), "p3")
    [] l = "p3" -> MulThen(e, l, mul(h, v.s1, v.s2), "raise_n")
    [] l = "raise_n" -> MulThen(e, l, init(h, ListBits(Falses(2 * v.m))), "raise_m")
    [] l = "raise_m" -> MulThen(e, l, init(h, ListBits(Falses(v.m))), "s3")
    [] l = "s3" -> MulThen(e, l, add(h, v.raise_n, v.p1), "s4")
    [] l = "s4" -> MulThen(e, l, sub(h, v.p3, v.p1), "s5")
    [] l = "s5" -> MulThen(e, l, sub(h, v.s4, v.p2), "s6")
    [] l = "s6" -> MulThen(e, l, add(h, v.raise_m, v.s5), "s7")
    [] l = "s7" -> MulThen(e, l, add(h, v.s3, v.s6), "return")
    [] l = "return" -> add(h, v.s7, v.p2)

mul(h, x, y) ==
  IF Max(len(h, x), len(h, y)) <= 1 THEN oldmul(h, x, y)
  ELSE mulAt("xl", Frame(h, MulLocals(x, y, Max(len(h, x), len(h, y)))))

\* ------------------------------------------------------------------------
\* Division
\* ------------------------------------------------------------------------
\* result of div: references q and r of the pair; field rpre is r.bits as it
\* is when the test r >= other of line 203 is evaluated
DivRes(h, q, r, e, rpre) == [h |-> h, q |-> q, r |-> r, err |-> e, rpre |-> rpre]

\* the local variables of div; rpre records r.bits at the test of line 203
DivLocals(x, y) == [self |-> x, other |-> y, q |-> 0, r |-> 0, rpre |-> <<>>]

RECURSIVE div(_, _, _)
RECURSIVE divAt(_, _)

\* name = <call o>, then go on at line next; an exception leaves the method
DivThen(e, name, o, next) ==
  IF o.err # "none" THEN DivRes(o.h, 0, 0, o.err, e.v.rpre)
  ELSE divAt(next, Assign(e, name, o))

\* the body of div from source line l onwards, after the recursive call of
\* line 197 has returned
divAt(l, e) ==
  LET v == e.v
      h == e.h
  IN
  CASE l = 198 -> DivThen(e, "q", twice(h, v.q), 199)
    [] l = 199 -> DivThen(e, "r", twice(h, v.r), 201)
    [] l = 201 -> IF Truthy(isodd(h, v.self)) THEN divAt(202, e) ELSE divAt(203, e)
    [] l = 202 -> LET one == One(h)
                  IN  DivThen(e, "r", add(one.h, v.r, one.r), 203)
    [] l = 203 -> IF ge(h, v.r, v.other)
                  THEN divAt(204, [e EXCEPT !.v.rpre = h[v.r].bits])
                  ELSE DivRes(h, v.q, v.r, "none", h[v.r].bits)
    [] l = 204 -> DivThen(e, "r", sub(h, v.r, v.other), 205)
    [] l = 205 -> LET one == One(h)
                  IN  DivThen(e, "q", add(one.h, v.q, one.r), 206)
    [] l = 206 -> DivRes(h, v.q, v.r, "none", v.rpre)

div(h, x, y) ==
  IF repr(h, x) = <<"0">>
  THEN LET q == init(h, <<>>)
           r == init(q.h, <<>>)
       IN  DivRes(r.h, q.r, r.r, "none", <<>>)
  ELSE LET f == fhalf(h, x)
           d == div(f.h, f.r, y)
       IN  IF d.err # "none" THEN d
           ELSE divAt(198, Frame(d.h, [DivLocals(x, y) EXCEPT !.q = d.q, !.r = d.r]))

floordiv(h, x, y) ==
  LET d == div(h, x, y) IN IF d.err # "none" THEN Fail(d.h, d.err) ELSE Ok(d.h, d.q)

mod(h, x, y) ==
  LET d == div(h, x, y) IN IF d.err # "none" THEN Fail(d.h, d.err) ELSE Ok(d.h, d.r)

\* ------------------------------------------------------------------------
\* State machine: a client holding two AInt variables
\* ------------------------------------------------------------------------
VARIABLES
  heap,   \* the objects bound to the client's two variables (references 1, 2)
  call,   \* the last call: operation, operand references, operand bits before
          \* the call, string argument
  res     \* what the last call returned or raised

vars == <<heap, call, res>>

Refs == {1, 2}

SeqsUpTo(S, n) == UNION {[1..k -> S] : k \in 0..n}

NoRes ==
  [err |-> "none", ref |-> 0, bits |-> <<>>, buf |-> <<>>,
   ref2 |-> 0, bits2 |-> <<>>, buf2 |-> <<>>, out |-> PyNone, trace |-> <<>>]

Call(op, i, j, s) ==
  [op |-> op, i |-> i, j |-> j,
   a |-> IF i = 0 THEN <<>> ELSE heap[i].bits,
   b |-> IF j = 0 THEN <<>> ELSE heap[j].bits,
   s |-> s]

\* the client's objects as the call leaves them
Live(h) == SubSeq(h, 1, 2)

\* the result of a call returning one AInt
AIntRes(o, trace) ==
  IF o.err # "none" THEN [NoRes EXCEPT !.err = o.err, !.trace = trace]
  ELSE [NoRes EXCEPT !.ref = o.r, !.bits = o.h[o.r].bits, !.buf = o.h[o.r].buf,
                     !.trace = trace]

\* the result of a call returning a pair of AInt
PairRes(o) ==
  IF o.err # "none" THEN [NoRes EXCEPT !.err = o.err, !.trace = o.rpre]
  ELSE [NoRes EXCEPT !.ref = o.q, !.bits = o.h[o.q].bits, !.buf = o.h[o.q].buf,
                     !.ref2 = o.r, !.bits2 = o.h[o.r].bits, !.buf2 = o.h[o.r].buf,
                     !.trace = o.rpre]

Init ==
  /\ heap = <<EmptyObj, EmptyObj>>
  /\ call = [op |-> "AInt", i |-> 0, j |-> 0, a |-> <<>>, b |-> <<>>, s |-> <<>>]
  /\ res = NoRes

\* v = AInt(s)
NewStr(i, s) ==
  /\ LET o == init(heap, StrBits(s)) IN heap' = [heap EXCEPT ![i] = o.h[o.r]]
  /\ call' = [Call("AInt_s", 0, 0, s) EXCEPT !.i = i]
  /\ res' = NoRes

\* v = AInt(bits=l)
NewBits(i, l) ==
  /\ LET o == init(heap, l) IN heap' = [heap EXCEPT ![i] = o.h[o.r]]
  /\ call' = [Call("AInt_bits", 0, 0, <<>>) EXCEPT !.i = i]
  /\ res' = NoRes

\* v.append(b)
AppendBit(i, b) ==
  /\ Len(heap[i].bits) + Len(heap[i].buf) < MaxLen
  /\ heap' = append(heap, i, b)
  /\ call' = Call("append", i, 0, <<>>)
  /\ res' = NoRes

\* v.remove_leading_zeros(): clears buf and strips bits in place, returns None
RemoveLeadingZeros(i) ==
  /\ heap' = remove_leading_zeros(heap, i)
  /\ call' = Call("remove_leading_zeros", i, 0, <<>>)
  /\ res' = NoRes

Add(i, j) ==
  LET o == add(heap, i, j)
  IN  /\ heap' = Live(o.h)
      /\ call' = Call("add", i, j, <<>>)
      /\ res' = AIntRes(o, <<>>)

Sub(i, j) ==
  LET o == sub(heap, i, j)
  IN  /\ heap' = Live(o.h)
      /\ call' = Call("sub", i, j, <<>>)
      /\ res' = AIntRes(o, o.sum)

Mul(i, j) ==
  LET o == mul(heap, i, j)
  IN  /\ heap' = Live(o.h)
      /\ call' = Call("mul", i, j, <<>>)
      /\ res' = AIntRes(o, <<>>)

Div(i, j) ==
  LET o == div(heap, i, j)
  IN  /\ heap' = Live(o.h)
      /\ call' = Call("div", i, j, <<>>)
      /\ res' = PairRes(o)

FloorDiv(i, j) ==
  LET o == floordiv(heap, i, j)
  IN  /\ heap' = Live(o.h)
      /\ call' = Call("floordiv", i, j, <<>>)
      /\ res' = AIntRes(o, <<>>)

Mod(i, j) ==
  LET o == mod(heap, i, j)
  IN  /\ heap' = Live(o.h)
      /\ call' = Call("mod", i, j, <<>>)
      /\ res' = AIntRes(o, <<>>)

Fhalf(i) ==
  LET o == fhalf(heap, i)
  IN  /\ heap' = Live(o.h)
      /\ call' = Call("fhalf", i, 0, <<>>)
      /\ res' = AIntRes(o, <<>>)

Twice(i) ==
  LET o == twice(heap, i)
  IN  /\ heap' = Live(o.h)
      /\ call' = Call("twice", i, 0, <<>>)
      /\ res' = AIntRes(o, <<>>)

IsOdd(i) ==
  /\ heap' = heap
  /\ call' = Call("isodd", i, 0, <<>>)
  /\ res' = [NoRes EXCEPT !.out = isodd(heap, i)]

Repr(i) ==
  /\ heap' = heap
  /\ call' = Call("repr", i, 0, <<>>)
  /\ res' = [NoRes EXCEPT !.out = PyStr(repr(heap, i))]

\* v = <the AInt the last call returned>  (w = 2: the second of a pair)
Store(i, w) ==
  /\ res.err = "none"
  /\ IF w = 1 THEN res.ref # 0 ELSE res.ref2 # 0
  /\ LET o == IF w = 1 THEN [bits |-> res.bits, buf |-> res.buf]
                       ELSE [bits |-> res.bits2, buf |-> res.buf2]
     IN  /\ Len(o.bits) + Len(o.buf) <= MaxLen
         /\ heap' = [heap EXCEPT ![i] = o]
  /\ call' = [Call("store", 0, 0, <<>>) EXCEPT !.i = i]
  /\ res' = NoRes

\* The two variables are interchangeable (NewStr, NewBits, AppendBit,
\* RemoveLeadingZeros and Store reach both), so the calls take variable 1 as
\* self, and variable 2 or, aliased, variable 1 itself as other.
Others == {2, 1}

Next ==
  \/ \E i \in Refs, s \in SeqsUpTo({"0", "1"}, MaxLen) : NewStr(i, s)
  \/ \E i \in Refs, l \in SeqsUpTo(BOOLEAN, MaxLen) : NewBits(i, l)
  \/ \E i \in Refs, b \in BOOLEAN : AppendBit(i, b)
  \/ \E i \in Refs : RemoveLeadingZeros(i)
  \/ \E j \in Others : Add(1, j)
  \/ \E j \in Others : Sub(1, j)
  \/ \E j \in Others : Mul(1, j)
  \/ \E j \in Others : Div(1, j)
  \/ \E j \in Others : FloorDiv(1, j)
  \/ \E j \in Others : Mod(1, j)
  \/ Fhalf(1)
  \/ Twice(1)
  \/ IsOdd(1)
  \/ Repr(1)
  \/ \E i \in Refs, w \in {1, 2} : Store(i, w)

Spec == Init /\ [][Next]_vars

Normalized(l) == l = <<>> \/ l[Len(l)]

TypeOK ==
  /\ Len(heap) = 2
  /\ \A i \in Refs : Len(heap[i].bits) + Len(heap[i].buf) <= MaxLen

\* ------------------------------------------------------------------------
\* Properties
\* ------------------------------------------------------------------------
Returned == res.err = "none"

\* C1: a * b returns an AInt whose value is int(a) * int(b).
MulIsProduct ==
  call.op = "mul" => Returned /\ int(res.bits) = int(call.a) * int(call.b)

\* C2: a - b with int(a) < int(b) raises and returns no value, also when a
\* and b have the same number of bits.
SubBelowRaises ==
  call.op = "sub" /\ int(call.a) < int(call.b) => ~Returned

\* C3: a - b with int(b) <= int(a) returns int(a) - int(b); the sum
\* a + comp + 1 has len(a) + 1 bits with its top bit set, so that the pop
\* removes exactly 2^len(a).
SubIsDifference ==
  call.op = "sub" /\ int(call.b) <= int(call.a) =>
    /\ Returned
    /\ int(res.bits) = int(call.a) - int(call.b)
    /\ Len(res.trace) = Len(call.a) + 1
    /\ res.trace[Len(res.trace)]
    /\ int(res.trace) = int(res.bits) + Pow2(Len(call.a))

SubWitness ==
  /\ call.op = "sub" /\ Returned
  /\ call.b # <<>> /\ int(call.b) < int(call.a)
  /\ Len(res.bits) + 1 < Len(res.trace)

\* C4: a.div(b) with b # 0 returns (q, r) with q * b + r = a and 0 <= r < b;
\* r is below 2 * b when it is compared with b, and b is subtracted from it
\* (q becomes odd) only when b <= r.
DivIsQuotientRemainder ==
  call.op = "div" /\ call.b # <<>> =>
    /\ Returned
    /\ int(res.bits) * int(call.b) + int(res.bits2) = int(call.a)
    /\ int(res.bits2) < int(call.b)
    /\ int(res.trace) < 2 * int(call.b)
    /\ (int(res.bits) % 2 = 1 => int(call.b) <= int(res.trace))
    /\ (int(res.bits) % 2 = 0 => int(res.trace) = int(res.bits2))

DivWitness ==
  /\ call.op = "div" /\ Returned
  /\ int(call.b) >= 2
  /\ int(res.bits) >= 2 /\ int(res.bits) % 2 = 1
  /\ int(res.bits2) >= 1

\* C5: a.div(b), a // b and a % b with b zero raise and return no value.
DivByZeroRaises ==
  call.op \in {"div", "floordiv", "mod"} /\ call.b = <<>> => ~Returned

\* C6: a + b returns an AInt whose value is int(a) + int(b), the shorter
\* operand read as zero-padded, the final carry stored only when it is true.
AddIsSum ==
  call.op = "add" =>
    /\ Returned
    /\ int(res.bits) = int(call.a) + int(call.b)
    /\ Len(res.bits) <= Max(Len(call.a), Len(call.b)) + 1
    /\ Normalized(res.bits)

AddWitness ==
  /\ call.op = "add" /\ Returned
  /\ call.b # <<>> /\ Len(call.b) < Len(call.a)
  /\ Len(res.bits) = Len(call.a) + 1

\* C7: the bits of every AInt built by the constructor, by append or returned
\* by a call are empty or end with True.
NormalizedInv ==
  /\ \A i \in Refs : Normalized(heap[i].bits)
  /\ Normalized(res.bits)
  /\ Normalized(res.bits2)

NormalizedWitness ==
  /\ call.op = "sub" /\ Returned
  /\ res.bits # <<>>
  /\ Len(res.bits) + 1 < Len(res.trace)

\* C8: a call of +, -, *, div, //, %, fhalf, twice or isodd leaves bits and
\* buf of its operands as they were, and the AInt it returns is neither of
\* the operand objects.
ArithOps == {"add", "sub", "mul", "div", "floordiv", "mod", "fhalf", "twice", "isodd"}

OperandsUnchanged ==
  [][call'.op \in ArithOps =>
       /\ heap' = heap
       /\ res'.ref \notin Refs
       /\ res'.ref2 \notin Refs]_vars

OperandsWitness ==
  /\ call.op = "sub" /\ Returned
  /\ call.j = 1
  /\ call.a # <<>>
  /\ heap[1].buf # <<>>

\* C9: repr(AInt(s)) is s without its leading '0' characters, and '0' when no
\* '1' remains.
RECURSIVE StripLeading(_)
StripLeading(s) ==
  IF s # <<>> /\ Head(s) = "0" THEN StripLeading(Tail(s)) ELSE s

Canon(s) == IF StripLeading(s) = <<>> THEN <<"0">> ELSE StripLeading(s)

ReprRoundTrip ==
  call.op = "AInt_s" => repr(heap, call.i) = Canon(call.s)

ReprWitness ==
  /\ call.op = "AInt_s"
  /\ Len(call.s) >= 3
  /\ call.s[1] = "0" /\ call.s[2] = "1" /\ call.s[3] = "0"

\* C10: a * b and b * a return the same bit list.
MulOf(a, b) ==
  LET o == mul(<<[bits |-> a, buf |-> <<>>], [bits |-> b, buf |-> <<>>]>>, 1, 2)
  IN  IF o.err # "none" THEN <<o.err>> ELSE o.h[o.r].bits

MulCommutes ==
  call.op = "mul" => Returned /\ res.bits = MulOf(call.b, call.a)

MulCommutesWitness ==
  /\ call.op = "mul" /\ Returned
  /\ Len(call.a) >= 2 /\ call.b # <<>> /\ call.a # call.b

====
